---- MODULE Spec2Model ----
(***************************************************************************)
(* State-machine model of src/index.py, the Streamlit dashboard for the    *)
(* IDEB and SAEB results.  The framework re-runs the whole script on every *)
(* interaction; one run is the sequence of blocks                          *)
(*   page header -> load and coercion -> IDEB tab -> SAEB tab -> region tab*)
(* and every block is one action.  Text values are sequences of one-       *)
(* character strings so that strip, upper, str(int), string comparison and *)
(* f-string concatenation are computed as Python computes them.  Metric    *)
(* values range over the integers, where the subtraction is exact.         *)
(***************************************************************************)
EXTENDS Integers, Sequences, FiniteSets, TLC

VARIABLES
    files,          \* the two spreadsheets on disk, by path (static)
    cache,          \* entries of @st.cache_data for load_data, by path
    pc,             \* position of the current script run
    df_ideb,        \* the run's name df_ideb
    df_saeb,        \* the run's name df_saeb
    ui,             \* elements written to the page in the current run
    sel,            \* widget values read by the block executed last
    df_filtrado,    \* df_filtrado_ideb / df_filtrado_saeb / df_filtrado of that block
    variacao_data,  \* variacao_data / variacao_data_saeb of that block
    variacao_df,    \* the 'Variação' column after apply(formatar_variacao)
    df_medias,      \* df_medias of the region block
    nome_arquivo,   \* file_name handed to st.download_button by that block
    tab_ui,         \* elements that block wrote into its tab container
    runs            \* number of script runs started so far

vars == <<files, cache, pc, df_ideb, df_saeb, ui, sel, df_filtrado,
          variacao_data, variacao_df, df_medias, nome_arquivo, tab_ui, runs>>

(***************************************************************************)
(* Bounds of the model.                                                    *)
(***************************************************************************)
MaxRows == 3

MaxRuns == 2

(***************************************************************************)
(* Text.                                                                   *)
(***************************************************************************)
Digit == <<"0", "1", "2", "3", "4", "5", "6", "7", "8", "9">>

DigitChar(d) == Digit[d + 1]

IsDigit(c) == \E d \in 0..9 : Digit[d + 1] = c

DigitVal(c) == CHOOSE d \in 0..9 : Digit[d + 1] = c

\* the characters of the model's texts, in code-point order
Alphabet ==
    <<" ", "-", ".", "0", "1", "2", "3", "4", "5", "6", "7", "8", "9",
      "A", "B", "C", "D", "E", "F", "I", "L", "M", "N", "O", "P", "R", "S",
      "T", "U", "V", "_", "a", "e", "g", "l", "n", "o", "p", "r", "s", "t",
      "u", "x">>

\* rank of a character by code point: ord(a) < ord(b) iff Ord(a) < Ord(b)
Ord(c) == CHOOSE i \in 1..Len(Alphabet) : Alphabet[i] = c

RECURSIVE Digits(_)
Digits(n) == IF n < 10 THEN <<DigitChar(n)>>
             ELSE Digits(n \div 10) \o <<DigitChar(n % 10)>>

\* str(n) of a Python int
IntToStr(n) == IF n < 0 THEN <<"-">> \o Digits(0 - n) ELSE Digits(n)

RECURSIVE DigitsVal(_)
DigitsVal(s) == IF Len(s) = 0 THEN 0
                ELSE 10 * DigitsVal(SubSeq(s, 1, Len(s) - 1)) + DigitVal(s[Len(s)])

IsIntLiteral(s) ==
    LET body == IF Len(s) > 0 /\ s[1] = "-" THEN Tail(s) ELSE s
    IN  Len(body) > 0 /\ \A i \in 1..Len(body) : IsDigit(body[i])

\* int(s) of a string holding an integer literal
StrToInt(s) == IF s[1] = "-" THEN 0 - DigitsVal(Tail(s)) ELSE DigitsVal(s)

\* a < b for Python str: the first differing character decides, a proper
\* prefix is smaller
RECURSIVE StrLess(_, _)
StrLess(a, b) ==
    IF Len(b) = 0 THEN FALSE
    ELSE IF Len(a) = 0 THEN TRUE
    ELSE IF a[1] = b[1] THEN StrLess(Tail(a), Tail(b))
    ELSE Ord(a[1]) < Ord(b[1])

IsSpace(c) == c = " "

RECURSIVE LStrip(_)
LStrip(s) == IF Len(s) > 0 /\ IsSpace(s[1]) THEN LStrip(Tail(s)) ELSE s

RECURSIVE RStrip(_)
RStrip(s) == IF Len(s) > 0 /\ IsSpace(s[Len(s)])
             THEN RStrip(SubSeq(s, 1, Len(s) - 1)) ELSE s

\* str.strip()
Strip(s) == RStrip(LStrip(s))

UpperChar(c) ==
    CASE c = "a" -> "A" [] c = "l" -> "L" [] c = "n" -> "N" [] c = "o" -> "O"
      [] c = "r" -> "R" [] c = "s" -> "S" [] c = "t" -> "T" [] c = "u" -> "U"
      [] OTHER -> c

\* str.upper()
Upper(s) == [i \in 1..Len(s) |-> UpperChar(s[i])]

(***************************************************************************)
(* Cells.  A spreadsheet cell is a number, a text or empty (NaN).          *)
(***************************************************************************)
NaN == [k |-> "nan"]

Num(v) == [k |-> "num", v |-> v]

Txt(s) == [k |-> "str", s |-> s]

IsNaN(x) == x.k = "nan"

\* pd.to_numeric(x, errors='coerce') of one cell
to_numeric(x) ==
    CASE x.k = "num" -> x
      [] x.k = "str" -> IF IsIntLiteral(x.s) THEN Num(StrToInt(x.s)) ELSE NaN
      [] OTHER -> NaN

\* int_str without the fillna(0): the missing value is cast to str as it is
int_str_sem_fillna(x) == IF IsNaN(x) THEN Txt(<<"n", "a", "n">>) ELSE Txt(IntToStr(x.v))

\* .fillna(0).astype(int).astype(str) of one cell after to_numeric
int_str(x) == IF IsNaN(x) THEN Txt(IntToStr(0)) ELSE Txt(IntToStr(x.v))

\* Series.astype(str) of one object cell: a missing cell becomes 'nan'
astype_str(x) == IF IsNaN(x) THEN <<"n", "a", "n">> ELSE x.s

\* the value the widget returns when it has no option
None == [k |-> "none"]

\* x == y of two cells: a missing cell equals nothing, not even itself
Eq(x, y) == ~IsNaN(x) /\ ~IsNaN(y) /\ x = y

\* f"{x}" of a cell or of a widget value
Format(x) ==
    CASE x.k = "str" -> x.s
      [] x.k = "num" -> IntToStr(x.v)
      [] x.k = "none" -> <<"N", "o", "n", "e">>
      [] OTHER -> <<"n", "a", "n">>

(***************************************************************************)
(* Tables: the column names and the rows, each row a function on them.     *)
(***************************************************************************)
Table(cols, rows) == [columns |-> cols, rows |-> rows]

EmptyTable == Table({}, <<>>)

\* df[mask] (lines 127-129): the rows that satisfy Keep, in their order
Mask(t, Keep(_)) == Table(t.columns, SelectSeq(t.rows, Keep))

\* df[c] = f(df[c]) for every row (lines 40-47, 295)
MapColumn(t, c, F(_)) ==
    Table(t.columns,
          [i \in 1..Len(t.rows) |-> [t.rows[i] EXCEPT ![c] = F(t.rows[i][c])]])

\* df[c].unique()
Unique(t, c) == {t.rows[i][c] : i \in 1..Len(t.rows)}

IsUnnamed(c) == c \in {"Unnamed: 0"}

\* df.columns.str.strip() of one name
StripName(c) == IF c = "REGIAO " THEN "REGIAO" ELSE c

\* df.loc[:, ~df.columns.str.contains('^Unnamed')]
DropUnnamed(t) ==
    LET keep == {c \in t.columns : ~IsUnnamed(c)}
    IN  Table(keep, [i \in 1..Len(t.rows) |-> [c \in keep |-> t.rows[i][c]]])

\* df.columns = df.columns.str.strip()
StripColumns(t) ==
    LET new == {StripName(c) : c \in t.columns}
        Old(n) == CHOOSE c \in t.columns : StripName(c) = n
    IN  Table(new, [i \in 1..Len(t.rows) |-> [n \in new |-> t.rows[i][Old(n)]]])

(***************************************************************************)
(* Loading: load_data under @st.cache_data, then the coercion of the       *)
(* identifier, edition and metric columns.                                 *)
(***************************************************************************)
P_IDEB == "ideb/xls/ideb.xlsx"

P_SAEB == "ideb/xls/saeb.xlsx"

Paths == {P_IDEB, P_SAEB}

Absent == [exists |-> FALSE]

File(t) == [exists |-> TRUE, table |-> t]

NoEntry == [cached |-> FALSE]

Entry(t) == [cached |-> TRUE, value |-> t]

\* the body of load_data: read_excel, then the Unnamed columns are dropped
load_data(file_path) == DropUnnamed(files[file_path].table)

\* what a call of the memoized load_data returns
Loaded(file_path) ==
    IF cache[file_path].cached THEN cache[file_path].value
    ELSE load_data(file_path)

\* read_excel raises FileNotFoundError: the function body runs (no entry
\* yet) and the path does not resolve
FileNotFound(file_path) ==
    ~cache[file_path].cached /\ ~files[file_path].exists

\* a cache that hands out the stored object itself, as st.cache_resource does
cache_resource(stored, worked) == worked

\* What the cache holds for a value after the caller has worked on the
\* object it was handed: st.cache_data hands every caller a copy of its own,
\* so the entry stays as stored.
cache_data(stored, worked) == stored

MetricOf(file_path) == IF file_path = P_IDEB THEN "IDEB" ELSE "PROFICIENCIA_MEDIA"

\* lines 36-47 for one table
Coerce(t, metric) ==
    LET a == StripColumns(t)
        b == MapColumn(a, "INEP", LAMBDA x : int_str(to_numeric(x)))
        c == MapColumn(b, "EDICAO", LAMBDA x : int_str(to_numeric(x)))
    IN  MapColumn(c, metric, to_numeric)

El(e) == [el |-> e, arg |-> ""]

ErrorEl(arg) == [el |-> "error", arg |-> arg]

\* lines 7-20: page configuration, sidebar logo, title and welcome text
Header ==
    /\ pc = "start"
    /\ ui' = ui \o <<El("sidebar_image"), El("title"), El("markdown")>>
    /\ pc' = "load"
    /\ UNCHANGED <<files, cache, df_ideb, df_saeb, sel, df_filtrado,
                   variacao_data, variacao_df, df_medias, nome_arquivo, tab_ui, runs>>

\* lines 31-47, no exception
Load ==
    /\ pc = "load"
    /\ \A p \in Paths : ~FileNotFound(p)
    /\ df_ideb' = Coerce(Loaded(P_IDEB), "IDEB")
    /\ df_saeb' = Coerce(Loaded(P_SAEB), "PROFICIENCIA_MEDIA")
    /\ cache' = [p \in Paths |->
                   Entry(cache_data(Loaded(p), Coerce(Loaded(p), MetricOf(p))))]
    /\ pc' = "tab1"
    /\ UNCHANGED <<files, ui, sel, df_filtrado, variacao_data, variacao_df,
                   df_medias, nome_arquivo, tab_ui, runs>>

\* lines 31-33 and 49-51: the first load_data call that raises
\* FileNotFoundError ends the run with st.error and st.stop
LoadFail ==
    /\ pc = "load"
    /\ \E p \in Paths : FileNotFound(p)
    /\ LET first == IF FileNotFound(P_IDEB) THEN P_IDEB ELSE P_SAEB
       IN  /\ ui' = Append(ui, ErrorEl(first))
           /\ cache' = IF first = P_SAEB
                        THEN [cache EXCEPT ![P_IDEB] = Entry(Loaded(P_IDEB))]
                        ELSE cache
    /\ pc' = "stopped"
    /\ UNCHANGED <<files, df_ideb, df_saeb, sel, df_filtrado, variacao_data,
                   variacao_df, df_medias, nome_arquivo, tab_ui, runs>>

(***************************************************************************)
(* The school tabs (IDEB, SAEB): filter, sort by edition, deltas, chart.   *)
(***************************************************************************)
TODAS == Txt(<<"T", "O", "D", "A", "S">>)

\* the options of a st.selectbox and the value it returns: one of the
\* options, None when there is none
Choice(options) == IF options = {} THEN {None} ELSE options

\* Filtrar with the stage mask left out when every school is selected
FiltrarTodasSemEtapa(df, escola, etapa, componente) ==
    IF escola = TODAS THEN df
    ELSE Mask(df, LAMBDA r : Eq(r["ESCOLA"], escola) /\ Eq(r["ETAPA"], etapa))

\* lines 124-129 and 212-218: school (unless 'TODAS'), stage and, for SAEB,
\* component, as successive boolean masks
Filtrar(df, escola, etapa, componente) ==
    LET a == IF escola = TODAS THEN df
             ELSE Mask(df, LAMBDA r : Eq(r["ESCOLA"], escola))
    IN  IF "COMP_CURRICULAR" \in df.columns
        THEN Mask(a, LAMBDA r : Eq(r["ETAPA"], etapa)
                                /\ Eq(r["COMP_CURRICULAR"], componente))
        ELSE Mask(a, LAMBDA r : Eq(r["ETAPA"], etapa))

\* the order sort_values puts two keys of the 'EDIÇÃO' column in: the
\* column holds str, so the comparison is that of Python str
KeyLess(x, y) == StrLess(x.s, y.s)

Orders(n) ==
    {p \in [1..n -> 1..n] : \A i, j \in 1..n : i # j => p[i] # p[j]}

\* df.sort_values(by='EDIÇÃO'): ascending by key; the default kind is
\* quicksort, which is not stable, so rows with equal keys may come out in
\* any order
sort_values(df) ==
    LET n == Len(df.rows)
    IN  {Table(df.columns, [i \in 1..n |-> df.rows[p[i]]]) :
           p \in {q \in Orders(n) :
                    \A i \in 1..n - 1 :
                       ~KeyLess(df.rows[q[i + 1]]["EDICAO"], df.rows[q[i]]["EDICAO"])}}

\* atual - anterior of two metric cells: NaN if either is NaN
Sub(x, y) == IF IsNaN(x) \/ IsNaN(y) THEN NaN ELSE Num(x.v - y.v)

Sep == <<" ", "-", " ">>

\* Variacao with the operands of the subtraction exchanged
VariacaoInvertida(df, metric) ==
    [k \in 1..Len(df.rows) - 1 |->
        LET atual == df.rows[k + 1]
            anterior == df.rows[k]
        IN  [Comparacao |-> Format(atual["EDICAO"]) \o Sep \o Format(anterior["EDICAO"]),
             EdicaoAtual |-> atual["EDICAO"],
             Atual |-> atual[metric],
             EdicaoAnterior |-> anterior["EDICAO"],
             Anterior |-> anterior[metric],
             Variacao |-> Sub(anterior[metric], atual[metric])]]

\* lines 157-172 and 247-262: one record per i in range(1, len(df))
Variacao(df, metric) ==
    [k \in 1..Len(df.rows) - 1 |->
        LET atual == df.rows[k + 1]
            anterior == df.rows[k]
        IN  [Comparacao |-> Format(atual["EDICAO"]) \o Sep \o Format(anterior["EDICAO"]),
             EdicaoAtual |-> atual["EDICAO"],
             Atual |-> atual[metric],
             EdicaoAnterior |-> anterior["EDICAO"],
             Anterior |-> anterior[metric],
             Variacao |-> Sub(atual[metric], anterior[metric])]]

\* valor > 0 and valor < 0 of a float: both are False for NaN
Gt0(valor) == ~IsNaN(valor) /\ valor.v > 0

Lt0(valor) == ~IsNaN(valor) /\ valor.v < 0

\* lines 54-64; sinal "up" is the up-arrow, "down" the down-arrow
formatar_variacao(valor) ==
    IF Gt0(valor) THEN [sinal |-> "up", cor |-> "green", valor |-> valor]
    ELSE IF Lt0(valor) THEN [sinal |-> "down", cor |-> "red", valor |-> valor]
    ELSE [sinal |-> "", cor |-> "blue", valor |-> valor]

\* lines 174-183 and 264-274: the 'Variação' column after apply
VariacaoDf(data) ==
    [k \in 1..Len(data) |-> [data[k] EXCEPT !.Variacao = formatar_variacao(@)]]

Us == <<"_">>

Png == <<".", "p", "n", "g">>

S_IDEB == <<"I", "D", "E", "B">>

S_SAEB == <<"S", "A", "E", "B">>

\* line 195
NomeIdeb(escola, etapa) ==
    S_IDEB \o Us \o Format(escola) \o Us \o Format(etapa) \o Png

\* line 287
NomeSaeb(escola, etapa, componente) ==
    S_SAEB \o Us \o Format(escola) \o Us \o Format(etapa) \o Us
        \o Format(componente) \o Png

NoFile == <<>>

Els(names) == [i \in 1..Len(names) |-> El(names[i])]

\* what a school tab renders and keeps once the widgets are read: the
\* warning for an empty selection, else table, deltas, chart and download
SchoolBlock(filtrado, metric, widgets, nome) ==
    IF Len(filtrado.rows) = 0
    THEN /\ df_filtrado' = filtrado
         /\ variacao_data' = <<>>
         /\ variacao_df' = <<>>
         /\ nome_arquivo' = NoFile
         /\ tab_ui' = Els(widgets \o <<"warning">>)
    ELSE \E ordenado \in sort_values(filtrado) :
           LET data == Variacao(ordenado, metric)
           IN  /\ df_filtrado' = ordenado
               /\ variacao_data' = data
               /\ variacao_df' = VariacaoDf(data)
               /\ nome_arquivo' = nome
               /\ tab_ui' = Els(widgets \o <<"subheader", "dataframe", "subheader">>
                                 \o (IF Len(data) > 0 THEN <<"html_table">> ELSE <<>>)
                                 \o <<"subheader", "pyplot", "download_button">>)

Sel(tab, escola, etapa, componente, regiao, edicao, tipo) ==
    [tab |-> tab, escola |-> escola, etapa |-> etapa, componente |-> componente,
     regiao |-> regiao, edicao |-> edicao, tipo_indicador |-> tipo]

\* lines 112-195
Tab1 ==
    /\ pc = "tab1"
    /\ \E escola \in Unique(df_ideb, "ESCOLA") \cup {TODAS},
          etapa \in Choice(Unique(df_ideb, "ETAPA")) :
          /\ sel' = Sel("ideb", escola, etapa, None, None, None, None)
          /\ SchoolBlock(Filtrar(df_ideb, escola, etapa, None), "IDEB",
                         <<"selectbox", "selectbox">>, NomeIdeb(escola, etapa))
    /\ ui' = Append(ui, El("tabs"))
    /\ pc' = "tab2"
    /\ UNCHANGED <<files, cache, df_ideb, df_saeb, df_medias, runs>>

\* lines 197-287
Tab2 ==
    /\ pc = "tab2"
    /\ \E escola \in Unique(df_saeb, "ESCOLA") \cup {TODAS},
          etapa \in Choice(Unique(df_saeb, "ETAPA")),
          componente \in Choice(Unique(df_saeb, "COMP_CURRICULAR")) :
          /\ sel' = Sel("saeb", escola, etapa, componente, None, None, None)
          /\ SchoolBlock(Filtrar(df_saeb, escola, etapa, componente),
                         "PROFICIENCIA_MEDIA",
                         <<"selectbox", "selectbox", "selectbox">>,
                         NomeSaeb(escola, etapa, componente))
    /\ pc' = "tab3"
    /\ UNCHANGED <<files, cache, df_ideb, df_saeb, ui, df_medias, runs>>

(***************************************************************************)
(* The region tab: normalisation, selectors, aggregation, download.        *)
(***************************************************************************)
\* the list handed to isin at line 296
Excluidas == {<<"N", "A", "N">>, <<>>, <<"N", "a", "N">>}

\* Normalizar without the strip
NormalizarSemStrip(x) == Txt(Upper(astype_str(x)))

\* line 295 for one cell
Normalizar(x) == Txt(Upper(Strip(astype_str(x))))

\* line 295 alone: the column assignment, made on the object passed in
AtribuirRegiao(df) ==
    IF "REGIAO" \in df.columns THEN MapColumn(df, "REGIAO", Normalizar) ELSE df

\* padronizar_regioes with the isin mask taken before the column is
\* normalised
padronizar_mascara_antes(df) ==
    IF "REGIAO" \in df.columns
    THEN MapColumn(Mask(df, LAMBDA r : astype_str(r["REGIAO"]) \notin Excluidas),
                   "REGIAO", Normalizar)
    ELSE df

\* lines 293-298: what padronizar_regioes returns
padronizar_regioes(df) ==
    IF "REGIAO" \in df.columns
    THEN Mask(MapColumn(df, "REGIAO", Normalizar),
              LAMBDA r : r["REGIAO"].s \notin Excluidas)
    ELSE df

RECURSIVE SumSeq(_)
SumSeq(s) == IF Len(s) = 0 THEN 0 ELSE s[1] + SumSeq(Tail(s))

\* round(100 * total / n) with ties to even: the mean in hundredths
Round2(total, n) ==
    LET q == (100 * total) \div n
        r == (100 * total) % n
    IN  IF 2 * r < n THEN q
        ELSE IF 2 * r > n THEN q + 1
        ELSE IF q % 2 = 0 THEN q ELSE q + 1

\* 'mean' of a metric column, NaN skipped, then .round(2); in hundredths
Mean(rows, metric) ==
    LET vals == SelectSeq(rows, LAMBDA r : ~IsNaN(r[metric]))
        nums == [i \in 1..Len(vals) |-> vals[i][metric].v]
    IN  IF Len(vals) = 0 THEN NaN ELSE Num(Round2(SumSeq(nums), Len(vals)))

\* pd.Series.nunique of the column the groupby counts: 'ESCOLA'
ContarEscolas(rows) ==
    Cardinality({rows[i]["ESCOLA"] : i \in {j \in 1..Len(rows) : ~IsNaN(rows[j]["ESCOLA"])}})

\* the group keys in the order groupby puts them in (sorted, NaN dropped)
SortedKeys(keys) ==
    CHOOSE o \in [1..Cardinality(keys) -> keys] :
        \A i, j \in 1..Cardinality(keys) : i < j => StrLess(o[i].s, o[j].s)

\* lines 353-358 and 415-420: groupby(by, as_index=False).agg(mean, nunique)
Agregar(df, by, metric) ==
    LET keys == SortedKeys({x \in Unique(df, by) : ~IsNaN(x)})
    IN  [g \in 1..Len(keys) |->
            LET rows == SelectSeq(df.rows, LAMBDA r : r[by] = keys[g])
            IN  [GRUPO |-> keys[g],
                 MEDIA |-> Mean(rows, metric),
                 QTD_ESCOLAS |-> ContarEscolas(rows)]]

T_IDEB == Txt(S_IDEB)

T_SAEB == Txt(S_SAEB)

Hifen == Txt(<<"-">>)

S_COMPARATIVO == <<"C", "O", "M", "P", "A", "R", "A", "T", "I", "V", "O">>

S_EDICAO == <<"E", "D", "I", "C", "A", "O">>

\* lines 385 and 389
NomeComparativo(tipo, edicao, etapa, componente) ==
    S_COMPARATIVO \o Us \o Format(tipo) \o Us \o S_EDICAO \o Us
        \o Format(edicao) \o Png

\* lines 446-448 and 453
NomeRegiao(tipo, regiao, etapa, componente) ==
    Format(tipo) \o Us \o Format(regiao) \o Us \o Format(etapa)
        \o (IF tipo = T_SAEB THEN Us \o Format(componente) ELSE <<>>) \o Png

\* lines 338-345 and 400-407
FiltrarRegiao(df, tipo, regiao, edicao, etapa, componente) ==
    Mask(df, LAMBDA r :
        /\ IF regiao = TODAS THEN Eq(r["EDICAO"], edicao)
                             ELSE Eq(r["REGIAO"], regiao)
        /\ Eq(r["ETAPA"], etapa)
        /\ tipo = T_SAEB => Eq(r["COMP_CURRICULAR"], componente))

RegionWidgets(regiao) ==
    <<"header", "selectbox">>
        \o (IF regiao = TODAS THEN <<"selectbox">> ELSE <<>>)
        \o <<"selectbox", "selectbox", "selectbox">>

\* lines 334-473 once the widgets are read
RegionBlock(ideb, saeb, tipo, regiao, edicao, etapa, componente) ==
    LET df == IF tipo = T_IDEB THEN ideb ELSE saeb
        metric == IF tipo = T_IDEB THEN "IDEB" ELSE "PROFICIENCIA_MEDIA"
        filtrado == FiltrarRegiao(df, tipo, regiao, edicao, etapa, componente)
    IN  /\ df_filtrado' = filtrado
        /\ IF Len(filtrado.rows) = 0
           THEN /\ df_medias' = <<>>
                /\ nome_arquivo' = NoFile
                /\ tab_ui' = Els(RegionWidgets(regiao) \o <<"warning">>)
           ELSE IF regiao = TODAS
           THEN /\ df_medias' = Agregar(filtrado, "REGIAO", metric)
                /\ nome_arquivo' = NomeComparativo(tipo, edicao, etapa, componente)
                /\ tab_ui' = Els(RegionWidgets(regiao)
                                  \o <<"subheader", "pyplot", "download_button",
                                       "subheader", "dataframe">>)
           ELSE /\ df_medias' = Agregar(filtrado, "EDICAO", metric)
                /\ nome_arquivo' = NomeRegiao(tipo, regiao, etapa, componente)
                /\ tab_ui' = Els(RegionWidgets(regiao)
                                  \o <<"subheader", "pyplot", "download_button",
                                       "subheader", "dataframe">>)

\* lines 289-476
Tab3 ==
    /\ pc = "tab3"
    /\ LET ideb == padronizar_regioes(df_ideb)
           saeb == padronizar_regioes(df_saeb)
       IN  /\ df_ideb' = ideb
           /\ df_saeb' = saeb
           /\ cache' = [cache EXCEPT
                  ![P_IDEB] = Entry(cache_data(@.value, AtribuirRegiao(df_ideb))),
                  ![P_SAEB] = Entry(cache_data(@.value, AtribuirRegiao(df_saeb)))]
           /\ IF "REGIAO" \notin ideb.columns \/ "REGIAO" \notin saeb.columns
              THEN /\ sel' = Sel("regioes", None, None, None, None, None, None)
                   /\ df_filtrado' = EmptyTable
                   /\ df_medias' = <<>>
                   /\ nome_arquivo' = NoFile
                   /\ tab_ui' = Els(<<"header", "error">>)
                   /\ pc' = "stopped"
              ELSE /\ \E regiao \in {TODAS} \cup Unique(ideb, "REGIAO")
                                         \cup Unique(saeb, "REGIAO"),
                         tipo \in {T_IDEB, T_SAEB} :
                       \E edicao \in (IF regiao = TODAS
                                      THEN Choice(Unique(ideb, "EDICAO")
                                                  \cup Unique(saeb, "EDICAO"))
                                      ELSE {None}),
                          etapa \in Choice(Unique(IF tipo = T_IDEB THEN ideb ELSE saeb,
                                                  "ETAPA")),
                          componente \in (IF tipo = T_IDEB THEN {Hifen}
                                          ELSE Choice(Unique(saeb, "COMP_CURRICULAR"))) :
                          /\ sel' = Sel("regioes", None, etapa, componente, regiao,
                                        edicao, tipo)
                          /\ RegionBlock(ideb, saeb, tipo, regiao, edicao, etapa,
                                         componente)
                   /\ pc' = "done"
    /\ variacao_data' = <<>>
    /\ variacao_df' = <<>>
    /\ UNCHANGED <<files, ui, runs>>

NoSel == Sel("", None, None, None, None, None, None)

\* a widget interaction: the script starts over with a fresh namespace and
\* an empty page; the files and the cache stay
Rerun ==
    /\ pc \in {"done", "stopped"}
    /\ runs < MaxRuns
    /\ runs' = runs + 1
    /\ pc' = "start"
    /\ df_ideb' = EmptyTable
    /\ df_saeb' = EmptyTable
    /\ ui' = <<>>
    /\ sel' = NoSel
    /\ df_filtrado' = EmptyTable
    /\ variacao_data' = <<>>
    /\ variacao_df' = <<>>
    /\ df_medias' = <<>>
    /\ nome_arquivo' = NoFile
    /\ tab_ui' = <<>>
    /\ UNCHANGED <<files, cache>>

Next == Header \/ Load \/ LoadFail \/ Tab1 \/ Tab2 \/ Tab3 \/ Rerun

(***************************************************************************)
(* Spreadsheets.  A behaviour starts from one pair of files; the families  *)
(* below say which pairs.                                                  *)
(***************************************************************************)
IdebColumns == {"INEP", "ESCOLA", "REGIAO", "EDICAO", "ETAPA", "IDEB"}

SaebColumns == {"INEP", "ESCOLA", "REGIAO", "EDICAO", "ETAPA",
                "COMP_CURRICULAR", "PROFICIENCIA_MEDIA"}

RowIdeb(inep, escola, regiao, edicao, etapa, ideb) ==
    [INEP |-> inep, ESCOLA |-> escola, REGIAO |-> regiao, EDICAO |-> edicao,
     ETAPA |-> etapa, IDEB |-> ideb]

RowSaeb(inep, escola, regiao, edicao, etapa, componente, proficiencia) ==
    [INEP |-> inep, ESCOLA |-> escola, REGIAO |-> regiao, EDICAO |-> edicao,
     ETAPA |-> etapa, COMP_CURRICULAR |-> componente,
     PROFICIENCIA_MEDIA |-> proficiencia]

Seqs(pool, n) == UNION {[1..k -> pool] : k \in 0..n}

\* the same sheet saved with the index column of an earlier export
WithUnnamed(t) ==
    Table(t.columns \cup {"Unnamed: 0"},
          [i \in 1..Len(t.rows) |->
              [c \in t.columns \cup {"Unnamed: 0"} |->
                  IF c = "Unnamed: 0" THEN Num(i - 1) ELSE t.rows[i][c]]])

\* the same sheet with a trailing blank in the region header
WithPadded(t) ==
    LET cols == (t.columns \ {"REGIAO"}) \cup {"REGIAO "}
    IN  Table(cols, [i \in 1..Len(t.rows) |->
                        [c \in cols |-> IF c = "REGIAO " THEN t.rows[i]["REGIAO"]
                                        ELSE t.rows[i][c]]])

\* the same sheet without the region column
WithoutRegiao(t) ==
    LET cols == t.columns \ {"REGIAO"}
    IN  Table(cols, [i \in 1..Len(t.rows) |-> [c \in cols |-> t.rows[i][c]]])

E_A == Txt(<<"A">>)

E_B == Txt(<<"B">>)

AI == Txt(<<"A", "I">>)

AF == Txt(<<"A", "F">>)

LP == Txt(<<"L", "P">>)

MT == Txt(<<"M", "T">>)

R_Sul == Txt(<<"S", "u", "l">>)

R_sul_ == Txt(<<" ", "s", "u", "l", " ">>)

R_NORTE == Txt(<<"N", "O", "R", "T", "E">>)

R_nan_ == Txt(<<" ", "n", "a", "N", " ">>)

R_blank == Txt(<<" ", " ">>)

\* files of the dashboard in general: few rows, every shape of sheet
BaseIdebPool ==
    {RowIdeb(Num(11), E_A, R_sul_, Num(2019), AI, Num(5)),
     RowIdeb(Num(12), E_B, NaN, Num(2021), AF, Num(6)),
     RowIdeb(Num(12), E_B, R_NORTE, Num(2019), AF, Num(6))}

BaseSaebPool ==
    {RowSaeb(Num(11), E_A, R_Sul, Num(2019), AI, LP, Num(250)),
     RowSaeb(Num(12), E_B, R_nan_, Num(2019), AI, MT, NaN),
     RowSaeb(Num(12), E_B, R_NORTE, Num(2019), AI, MT, Num(240))}

Shapes(t) == {File(t), File(WithUnnamed(t)), File(WithPadded(t)),
              File(WithoutRegiao(t))}

FixedIdeb == Table(IdebColumns, <<RowIdeb(Num(11), E_A, R_Sul, Num(2019), AI, Num(5))>>)

FixedSaeb ==
    Table(SaebColumns, <<RowSaeb(Num(11), E_A, R_Sul, Num(2019), AI, LP, Num(250))>>)

BaseFiles ==
    LET ideb == {File(Table(IdebColumns, r)) : r \in Seqs(BaseIdebPool, MaxRows - 1)}
                \cup Shapes(FixedIdeb) \cup {Absent}
        saeb == {File(Table(SaebColumns, r)) : r \in Seqs(BaseSaebPool, MaxRows - 1)}
                \cup Shapes(FixedSaeb) \cup {Absent}
    IN  {[p \in Paths |-> IF p = P_IDEB THEN i ELSE s] : i \in ideb, s \in saeb}

InitWith(family) ==
    /\ files \in family
    /\ cache = [p \in Paths |-> NoEntry]
    /\ pc = "start"
    /\ df_ideb = EmptyTable
    /\ df_saeb = EmptyTable
    /\ ui = <<>>
    /\ sel = NoSel
    /\ df_filtrado = EmptyTable
    /\ variacao_data = <<>>
    /\ variacao_df = <<>>
    /\ df_medias = <<>>
    /\ nome_arquivo = NoFile
    /\ tab_ui = <<>>
    /\ runs = 1

Init == InitWith(BaseFiles)

Spec == Init /\ [][Next]_vars

Pair(i, s) == [p \in Paths |-> IF p = P_IDEB THEN i ELSE s]

\* files for the school tabs: editions of one, three and four digits, an
\* edition that is no number, missing metrics, two schools, two stages
EscolaIdebPool ==
    {RowIdeb(Num(11), E_A, R_Sul, Num(2005), AI, Num(5)),
     RowIdeb(Num(11), E_A, R_Sul, Num(999), AI, Num(7)),
     RowIdeb(Num(11), E_A, R_Sul, Txt(<<"x">>), AI, NaN),
     RowIdeb(Num(12), E_B, R_Sul, Num(2019), AI, Num(5)),
     RowIdeb(Num(11), E_A, NaN, Num(2005), AF, Num(6))}

EscolaSaebPool ==
    {RowSaeb(Num(11), E_A, R_Sul, Num(2005), AI, LP, Num(250)),
     RowSaeb(Num(11), E_A, R_Sul, Num(999), AI, LP, Num(260)),
     RowSaeb(Num(11), E_A, R_Sul, NaN, AI, LP, NaN),
     RowSaeb(Num(12), E_B, R_Sul, Num(2019), AI, MT, Num(240)),
     RowSaeb(Num(11), E_A, NaN, Num(2019), AF, LP, Num(250))}

EscolaFiles ==
    {Pair(File(Table(IdebColumns, r)), File(FixedSaeb)) :
        r \in Seqs(EscolaIdebPool, MaxRows)}
    \cup {Pair(File(FixedIdeb), File(Table(SaebColumns, r))) :
        r \in Seqs(EscolaSaebPool, MaxRows)}
    \cup {Pair(File(FixedIdeb), Absent), Pair(Absent, File(FixedSaeb))}

InitEscola == InitWith(EscolaFiles)

\* files for the region tab: spellings of one region, missing, blank and
\* 'nan' regions, two schools of one name with different identifiers
RegiaoIdebPool ==
    {RowIdeb(Num(11), E_A, R_Sul, Num(2019), AI, Num(6)),
     RowIdeb(Num(12), E_A, R_sul_, Num(2019), AI, Num(7)),
     RowIdeb(Num(13), E_B, R_NORTE, Num(2019), AI, Num(5)),
     RowIdeb(Num(14), E_B, NaN, Num(2021), AI, Num(5)),
     RowIdeb(Num(11), E_A, R_nan_, Num(2021), AI, NaN),
     RowIdeb(Num(13), E_B, R_blank, Num(2021), AI, Num(4))}

RegiaoSaebPool ==
    {RowSaeb(Num(11), E_A, R_Sul, Num(2019), AI, LP, Num(250)),
     RowSaeb(Num(12), E_A, R_sul_, Num(2019), AI, LP, Num(260)),
     RowSaeb(Num(13), E_B, R_NORTE, Num(2019), AI, LP, Num(240)),
     RowSaeb(Num(14), E_B, NaN, Num(2021), AI, LP, Num(250)),
     RowSaeb(Num(11), E_A, R_nan_, Num(2021), AI, LP, NaN),
     RowSaeb(Num(13), E_B, R_blank, Num(2021), AI, MT, Num(230))}

RegiaoFiles ==
    {Pair(File(Table(IdebColumns, r)), File(FixedSaeb)) :
        r \in Seqs(RegiaoIdebPool, MaxRows)}
    \cup {Pair(File(FixedIdeb), File(Table(SaebColumns, r))) :
        r \in Seqs(RegiaoSaebPool, MaxRows)}
    \cup {Pair(File(WithoutRegiao(Table(IdebColumns, r))), File(FixedSaeb)) :
        r \in Seqs(RegiaoIdebPool, 1)}
    \cup {Pair(File(FixedIdeb), File(WithoutRegiao(Table(SaebColumns, r)))) :
        r \in Seqs(RegiaoSaebPool, 1)}
    \cup {Pair(File(FixedIdeb), Absent), Pair(Absent, File(FixedSaeb))}

InitRegiao == InitWith(RegiaoFiles)

\* files for the coercion: identifiers, editions and metrics given as
\* numbers, as numeric text, as other text, as empty text and left empty
CoercaoIdebPool ==
    {RowIdeb(Num(11), E_A, R_Sul, Num(2019), AI, Num(5)),
     RowIdeb(Txt(<<"1", "2">>), E_A, R_Sul, Txt(<<"2", "0", "2", "1">>), AI, Txt(<<"x">>)),
     RowIdeb(Txt(<<"x">>), E_B, R_Sul, Txt(<<>>), AI, Txt(<<>>)),
     RowIdeb(NaN, E_B, R_NORTE, NaN, AF, NaN),
     RowIdeb(Txt(<<>>), E_A, R_NORTE, Txt(<<"x">>), AF, Num(0))}

CoercaoSaebPool ==
    {RowSaeb(Num(11), E_A, R_Sul, Num(2019), AI, LP, Num(250)),
     RowSaeb(Txt(<<"1", "2">>), E_A, R_Sul, Txt(<<"2", "0", "2", "1">>), AI, LP, Txt(<<"x">>)),
     RowSaeb(Txt(<<"x">>), E_B, R_Sul, Txt(<<>>), AI, MT, Txt(<<>>)),
     RowSaeb(NaN, E_B, R_NORTE, NaN, AF, MT, NaN),
     RowSaeb(Txt(<<>>), E_A, R_NORTE, Txt(<<"x">>), AF, LP, Num(0))}

CoercaoFiles ==
    {Pair(File(Table(IdebColumns, r)), File(FixedSaeb)) :
        r \in Seqs(CoercaoIdebPool, MaxRows)}
    \cup {Pair(File(FixedIdeb), File(Table(SaebColumns, r))) :
        r \in Seqs(CoercaoSaebPool, MaxRows)}
    \cup {Pair(File(FixedIdeb), Absent), Pair(Absent, File(FixedSaeb))}

InitCoercao == InitWith(CoercaoFiles)

SpecCoercao == InitCoercao /\ [][Next]_vars

SpecRegiao == InitRegiao /\ [][Next]_vars

SpecEscola == InitEscola /\ [][Next]_vars

(***************************************************************************)
(* Properties of the school tabs.                                          *)
(***************************************************************************)
\* the state right after the IDEB block or the SAEB block
InSchoolTab == sel.tab \in {"ideb", "saeb"}

\* the table the block filtered and its metric column
SourceOfTab == IF sel.tab = "ideb" THEN df_ideb ELSE df_saeb

MetricOfTab == IF sel.tab = "ideb" THEN "IDEB" ELSE "PROFICIENCIA_MEDIA"

EdicaoInt(r) == StrToInt(r["EDICAO"].s)

\* C1: in the IDEB tab and in the SAEB tab the rows of the filtered table
\* shown are in non-decreasing order of the integer value of the edition.
C1_EdicaoOrdemInteira ==
    InSchoolTab =>
        \A i \in 1..Len(df_filtrado.rows) - 1 :
            EdicaoInt(df_filtrado.rows[i]) <= EdicaoInt(df_filtrado.rows[i + 1])

\* C2: a filtered table of n rows yields max(n-1, 0) delta records; record
\* k is labelled "edition[k] - edition[k-1]", carries metric[k] as current
\* and metric[k-1] as previous value and their difference (missing when
\* either is missing); the delta table is rendered only when there is a
\* record.
C2_DeltaLaw ==
    InSchoolTab =>
        LET rows == df_filtrado.rows
            n == Len(rows)
            m == MetricOfTab
        IN  /\ Len(variacao_data) = IF n >= 1 THEN n - 1 ELSE 0
            /\ \A k \in 1..Len(variacao_data) :
                  LET d == variacao_data[k]
                      cur == rows[k + 1]
                      prev == rows[k]
                  IN  /\ d.Comparacao = cur["EDICAO"].s \o <<" ", "-", " ">>
                                           \o prev["EDICAO"].s
                      /\ d.Atual = cur[m]
                      /\ d.Anterior = prev[m]
                      /\ IF IsNaN(cur[m]) \/ IsNaN(prev[m])
                         THEN IsNaN(d.Variacao)
                         ELSE d.Variacao = Num(cur[m].v - prev[m].v)
            /\ (\E j \in 1..Len(tab_ui) : tab_ui[j].el = "html_table") <=> n >= 2

\* a table of three rows, hence two delta records, one of them with a
\* missing metric
C2_Witness ==
    /\ InSchoolTab
    /\ Len(df_filtrado.rows) = 3
    /\ Len(variacao_data) = 2
    /\ IsNaN(variacao_data[1].Variacao)
    /\ ~IsNaN(variacao_data[2].Variacao)
    /\ variacao_data[2].Variacao.v # 0

\* C3: every delta, a missing one included, is classified increase (up,
\* green) exactly when > 0, decrease (down, red) exactly when < 0 and flat
\* (no marker, blue) exactly when == 0; a missing delta is not flat.
C3_Classificacao ==
    InSchoolTab =>
        \A k \in 1..Len(variacao_df) :
            LET valor == variacao_data[k].Variacao
                f == variacao_df[k].Variacao
            IN  /\ (f.cor = "green" /\ f.sinal = "up") <=> (~IsNaN(valor) /\ valor.v > 0)
                /\ (f.cor = "red" /\ f.sinal = "down") <=> (~IsNaN(valor) /\ valor.v < 0)
                /\ (f.cor = "blue" /\ f.sinal = "") <=> (~IsNaN(valor) /\ valor.v = 0)

\* how often row r occurs in the sequence rows
Count(rows, r) == Cardinality({i \in 1..Len(rows) : rows[i] = r})

\* the selected constraints, taken together
Satisfies(r) ==
    /\ sel.escola = TODAS \/ r["ESCOLA"] = sel.escola
    /\ r["ETAPA"] = sel.etapa
    /\ sel.tab = "saeb" => r["COMP_CURRICULAR"] = sel.componente

\* C4: the filtered table holds exactly the rows of the source table that
\* satisfy every selected constraint (each as often as the source holds
\* it); with school 'TODAS' the school is no constraint.
C4_FiltroExato ==
    InSchoolTab =>
        /\ \A i \in 1..Len(df_filtrado.rows) : Satisfies(df_filtrado.rows[i])
        /\ \A i \in 1..Len(SourceOfTab.rows) :
              LET r == SourceOfTab.rows[i]
              IN  Satisfies(r) =>
                      Count(df_filtrado.rows, r) = Count(SourceOfTab.rows, r)
        /\ \A i \in 1..Len(df_filtrado.rows) :
              Count(SourceOfTab.rows, df_filtrado.rows[i]) > 0

\* 'TODAS' selected: rows of two schools are kept and a row of another
\* stage is dropped
C4_Witness ==
    /\ InSchoolTab
    /\ sel.escola = TODAS
    /\ Len(df_filtrado.rows) = 2
    /\ df_filtrado.rows[1]["ESCOLA"] # df_filtrado.rows[2]["ESCOLA"]
    /\ Len(SourceOfTab.rows) = 3

(***************************************************************************)
(* Properties of the region tab.                                           *)
(***************************************************************************)
\* the state right after a region block that got as far as aggregating
Aggregated == sel.tab = "regioes" /\ Len(df_medias) > 0

GroupColumn == IF sel.regiao = TODAS THEN "REGIAO" ELSE "EDICAO"

\* C5: aggregating a non-empty filtered table yields one row per distinct
\* group value, and its QTD_ESCOLAS is the number of distinct school
\* identifiers (INEP) among the rows of the group.
C5_ContagemPorInep ==
    Aggregated =>
        /\ {df_medias[g].GRUPO : g \in 1..Len(df_medias)} = Unique(df_filtrado, GroupColumn)
        /\ Len(df_medias) = Cardinality(Unique(df_filtrado, GroupColumn))
        /\ \A g \in 1..Len(df_medias) :
              df_medias[g].QTD_ESCOLAS =
                  Cardinality({df_filtrado.rows[i]["INEP"] :
                      i \in {j \in 1..Len(df_filtrado.rows) :
                          df_filtrado.rows[j][GroupColumn] = df_medias[g].GRUPO}})

\* the tables of the run as loaded and coerced, before the region tab
AsLoaded(p) == Coerce(load_data(p), MetricOf(p))

DfOf(p) == IF p = P_IDEB THEN df_ideb ELSE df_saeb

AllSpaces(s) == \A i \in 1..Len(s) : s[i] = " "

\* missing, whitespace-only, or a case or whitespace variant of "nan"
BadRegiao(x) ==
    IsNaN(x) \/ AllSpaces(x.s) \/ Upper(Strip(x.s)) = <<"N", "A", "N">>

Trimmed(s) == Len(s) = 0 \/ (s[1] # " " /\ s[Len(s)] # " ")

UpperCased(s) ==
    \A i \in 1..Len(s) : s[i] \notin {"a", "e", "g", "l", "n", "o", "p", "r", "s", "t", "u", "x"}

\* the region tab ran padronizar_regioes on the table of path p, which has
\* a region column
Padronizado(p) == sel.tab = "regioes" /\ "REGIAO" \in AsLoaded(p).columns

HasRegiao(p, x) ==
    \E i \in 1..Len(AsLoaded(p).rows) : AsLoaded(p).rows[i]["REGIAO"] = x

\* C6: the output of padronizar_regioes holds only rows whose region is
\* trimmed, upper-cased and neither "NAN" nor empty; the rows whose region
\* is missing, blank or a variant of "nan" are gone, all others are kept.
C6_RegioesPadronizadas ==
    \A p \in Paths :
        Padronizado(p) =>
            LET kept == SelectSeq(AsLoaded(p).rows, LAMBDA r : ~BadRegiao(r["REGIAO"]))
                out == DfOf(p).rows
            IN  /\ Len(out) = Len(kept)
                /\ \A i \in 1..Len(out) :
                      /\ Trimmed(out[i]["REGIAO"].s)
                      /\ UpperCased(out[i]["REGIAO"].s)
                      /\ out[i]["REGIAO"].s \notin {<<"N", "A", "N">>, <<>>}
                      /\ out[i]["REGIAO"].s = Upper(Strip(kept[i]["REGIAO"].s))
                      /\ \A c \in AsLoaded(p).columns \ {"REGIAO"} : out[i][c] = kept[i][c]

\* a table of which a " naN " row was dropped and a " sul " row kept
C6_Witness ==
    /\ Padronizado(P_IDEB)
    /\ HasRegiao(P_IDEB, R_nan_)
    /\ HasRegiao(P_IDEB, R_sul_)
    /\ Len(df_ideb.rows) = Len(AsLoaded(P_IDEB).rows) - 1

\* C7: padronizar_regioes applied to its own output changes nothing, and a
\* table without a region column is returned as it is.
C7_Idempotente ==
    sel.tab = "regioes" =>
        \A p \in Paths :
            /\ padronizar_regioes(DfOf(p)) = DfOf(p)
            /\ "REGIAO" \notin AsLoaded(p).columns => DfOf(p) = AsLoaded(p)

\* the output of a first application that dropped a " naN " row
C7_Witness ==
    /\ Padronizado(P_SAEB)
    /\ HasRegiao(P_SAEB, R_nan_)
    /\ Len(df_saeb.rows) = 2
    /\ Len(AsLoaded(P_SAEB).rows) = 3

(***************************************************************************)
(* Properties of a whole run and of successive runs.                       *)
(***************************************************************************)
HasError == \E i \in 1..Len(ui) : ui[i].el = "error"

\* C8: when a spreadsheet is absent the run shows an error naming the
\* missing path and halts; nothing else is rendered in that run, neither
\* title nor sidebar image nor any tab.
C8_SemRenderParcial ==
    (pc = "stopped" /\ HasError) =>
        /\ \E p \in Paths : ~files[p].exists /\ ui = <<ErrorEl(p)>>
        /\ tab_ui = <<>>

\* C9: in every run the memoized load returns the table of the file, and
\* the IDEB and SAEB tabs filter the tables as loaded, whatever the region
\* tab of earlier runs did: rows with a missing or invalid region are
\* there and no region label is rewritten.
C9_AbasEscolaIntactas ==
    /\ \A p \in Paths : cache[p].cached => cache[p].value = load_data(p)
    /\ InSchoolTab =>
          /\ \A p \in Paths : DfOf(p) = AsLoaded(p)
          /\ LET r == AsLoaded(IF sel.tab = "ideb" THEN P_IDEB ELSE P_SAEB).rows
             IN  \A i \in 1..Len(r) :
                     Satisfies(r[i]) => Count(df_filtrado.rows, r[i]) = Count(r, r[i])

\* a second run whose IDEB tab shows a row with a missing region, after
\* the region tab of the first run dropped it
C9_Witness ==
    /\ runs = 2
    /\ sel.tab = "ideb"
    /\ "REGIAO" \in df_filtrado.columns
    /\ \E i \in 1..Len(df_filtrado.rows) : IsNaN(df_filtrado.rows[i]["REGIAO"])

\* the selections the region block could have read in this state
RegionTable(tipo) == IF tipo = T_IDEB THEN df_ideb ELSE df_saeb

RegionChoices ==
    {c \in [tipo : {T_IDEB, T_SAEB},
            regiao : {TODAS} \cup Unique(df_ideb, "REGIAO") \cup Unique(df_saeb, "REGIAO"),
            edicao : {None} \cup Unique(df_ideb, "EDICAO") \cup Unique(df_saeb, "EDICAO"),
            etapa : Unique(df_ideb, "ETAPA") \cup Unique(df_saeb, "ETAPA"),
            componente : {Hifen} \cup Unique(df_saeb, "COMP_CURRICULAR")] :
        /\ (c.regiao = TODAS) = (c.edicao # None)
        /\ c.etapa \in Unique(RegionTable(c.tipo), "ETAPA")
        /\ (c.tipo = T_IDEB) = (c.componente = Hifen)
        /\ Len(FiltrarRegiao(RegionTable(c.tipo), c.tipo, c.regiao, c.edicao,
                              c.etapa, c.componente).rows) > 0}

RegionName(c) ==
    IF c.regiao = TODAS THEN NomeComparativo(c.tipo, c.edicao, c.etapa, c.componente)
    ELSE NomeRegiao(c.tipo, c.regiao, c.etapa, c.componente)

\* C10: within one view mode, exports made under different filter
\* combinations get different file names: any other selection of the view
\* that exports a chart gets a name other than the one just exported.
C10_NomesDistintos ==
    /\ (sel.tab = "ideb" /\ nome_arquivo # NoFile) =>
          \A e \in Unique(df_ideb, "ESCOLA") \cup {TODAS}, t \in Unique(df_ideb, "ETAPA") :
              (<<e, t>> # <<sel.escola, sel.etapa>>
               /\ Len(Filtrar(df_ideb, e, t, None).rows) > 0)
                  => NomeIdeb(e, t) # nome_arquivo
    /\ (sel.tab = "saeb" /\ nome_arquivo # NoFile) =>
          \A e \in Unique(df_saeb, "ESCOLA") \cup {TODAS}, t \in Unique(df_saeb, "ETAPA"),
             c \in Unique(df_saeb, "COMP_CURRICULAR") :
              (<<e, t, c>> # <<sel.escola, sel.etapa, sel.componente>>
               /\ Len(Filtrar(df_saeb, e, t, c).rows) > 0)
                  => NomeSaeb(e, t, c) # nome_arquivo
    /\ (sel.tab = "regioes" /\ nome_arquivo # NoFile) =>
          \A c \in RegionChoices :
              ((c.regiao = TODAS) = (sel.regiao = TODAS)
               /\ <<c.tipo, c.regiao, c.edicao, c.etapa, c.componente>>
                    # <<sel.tipo_indicador, sel.regiao, sel.edicao, sel.etapa,
                        sel.componente>>)
                  => RegionName(c) # nome_arquivo

(***************************************************************************)
(* Properties of the post-load coercion.                                   *)
(***************************************************************************)
\* the run has loaded and coerced its tables and the region tab has not
\* yet dropped rows of them
Coerced == pc \in {"tab1", "tab2", "tab3"}

\* a source cell that is no number: missing, empty text or other text
Invalido(x) == IsNaN(x) \/ (x.k = "str" /\ ~IsIntLiteral(x.s))

\* the text is the decimal writing of an integer
IntegerString(x) == x.k = "str" /\ IsIntLiteral(x.s) /\ IntToStr(StrToInt(x.s)) = x.s

Zero == Txt(<<"0">>)

\* C11: after the coercion, in both tables, every identifier and every
\* edition is the string of an integer; a source value that is no number
\* (other text, empty, missing) becomes exactly "0"; a metric value that
\* is no number becomes missing, not zero, and a numeric one stays.
C11_Coercao ==
    Coerced =>
        \A p \in Paths :
            LET raw == load_data(p).rows
                out == DfOf(p).rows
                m == MetricOf(p)
            IN  /\ Len(out) = Len(raw)
                /\ \A i \in 1..Len(out) :
                      /\ \A c \in {"INEP", "EDICAO"} :
                            /\ IntegerString(out[i][c])
                            /\ Invalido(raw[i][c]) => out[i][c] = Zero
                            /\ raw[i][c].k = "num" => out[i][c].s = IntToStr(raw[i][c].v)
                      /\ Invalido(raw[i][m]) <=> IsNaN(out[i][m])
                      /\ raw[i][m].k = "num" => out[i][m] = raw[i][m]

\* a coerced IDEB table with a row whose identifier was other text, whose
\* edition was empty text and whose metric was empty, next to a row whose
\* identifier was missing
C11_Witness ==
    /\ Coerced
    /\ \E i, j \in 1..Len(df_ideb.rows) :
          /\ load_data(P_IDEB).rows[i]["INEP"] = Txt(<<"x">>)
          /\ load_data(P_IDEB).rows[i]["EDICAO"] = Txt(<<>>)
          /\ df_ideb.rows[i]["INEP"] = Zero
          /\ df_ideb.rows[i]["EDICAO"] = Zero
          /\ IsNaN(df_ideb.rows[i]["IDEB"])
          /\ IsNaN(load_data(P_IDEB).rows[j]["INEP"])
          /\ df_ideb.rows[j]["INEP"] = Zero

(***************************************************************************)
(* What the delta records of the school tabs compare.                      *)
(***************************************************************************)
\* C12: every delta record of the IDEB or SAEB tab compares two rows of
\* the same school, the current one of a strictly later edition (as an
\* integer) than the previous one, whatever the selection ('TODAS'
\* included) and also when a school has several rows for one edition and
\* stage.
C12_MesmaEscolaEdicaoPosterior ==
    InSchoolTab =>
        \A k \in 1..Len(variacao_data) :
            LET cur == df_filtrado.rows[k + 1]
                prev == df_filtrado.rows[k]
            IN  /\ cur["INEP"] = prev["INEP"]
                /\ cur["ESCOLA"] = prev["ESCOLA"]
                /\ EdicaoInt(cur) > EdicaoInt(prev)

====
